---- MODULE Spec2Model ----
(***************************************************************************)
(* State-machine model of the FloatingContributors React component         *)
(* (src/src/components/FloatingContributors/index.tsx).                    *)
(*                                                                         *)
(* The component's state hooks are the variables; every asynchronous       *)
(* continuation of fetchLiveContributors (the code between two awaits),    *)
(* every timer callback and the close button's onClick is one action.      *)
(* State updates made by one callback are committed together, and the      *)
(* effects whose dependencies changed run as part of the same step.        *)
(* A render that throws unmounts the component: nothing happens after it.  *)
(* Records of a contributors response are taken to carry an id, so that    *)
(* contributor.id.toString() does not throw in the middle of a merge.      *)
(***************************************************************************)
EXTENDS Integers, Sequences, FiniteSets, TLC

VARIABLES
  contributors,          \* useState<Contributor[]>([])
  activities,            \* useState<ContributorActivity[]>([])
  currentActivityIndex,  \* useState(0)
  isVisible,             \* useState(true)
  loading,               \* useState(true)
  currentTime,           \* useState(Date.now())
  retryCount,            \* useState(0)
  ops,                   \* fetchLiveContributors invocations in flight, oldest first
  timers,                \* pending retry setTimeouts: attempt number -> how many
  now,                   \* the environment's clock, Date.now()
  fails,                 \* history: fetch failures since the last success, refresh tick or mount
  event                  \* history: the callback that produced this state, and what it did

vars == <<contributors, activities, currentActivityIndex, isVisible, loading,
          currentTime, retryCount, ops, timers, now, fails, event>>

(***************************************************************************)
(* Bounds of the model.                                                    *)
(***************************************************************************)
MaxOps == 2          \* fetch operations in flight at once
MaxTimers == 2       \* retry timers pending at once
MaxRetryCount == 4   \* cap on the retry counter (the code has none)
MaxSeed == 0         \* generator states a callback may start from: 0..MaxSeed
MaxClockTicks == 1   \* wall-clock ticks
MaxFails == 4        \* the failure count saturates here

(***************************************************************************)
(* Program constants.                                                      *)
(***************************************************************************)
SampledRepos == 8        \* repos.slice(0, 8)
TopN == 15               \* .slice(0, 15)
\* a ceiling of four retries
RetryCeilingOfFour == 3 + 1

RetryCeiling == 3        \* retryCount < 3
RetryDelayUnit == 5000   \* 5000 * (retryCount + 1)
ClockPeriod == 60000     \* setInterval(..., 60000)
MountTime == 200000000   \* Date.now() at mount, in ms
RandMod == 36            \* Math.random() modelled as x / RandMod, x in 0..RandMod-1

timeOffsets ==
  << 30 * 1000, 2 * 60 * 1000, 5 * 60 * 1000, 10 * 60 * 1000, 30 * 60 * 1000,
     60 * 60 * 1000, 2 * 60 * 60 * 1000, 24 * 60 * 60 * 1000,
     2 * 24 * 60 * 60 * 1000 >>

actions == << "checked-in", "contributed", "starred", "forked" >>

Min(a, b) == IF a < b THEN a ELSE b

(***************************************************************************)
(* Math.random(): a generator whose successive values follow NextRand from *)
(* whatever state it is in when a callback starts.                         *)
(***************************************************************************)
NextRand(x) == (13 * x + 7) % RandMod

\* Math.floor(Math.random() * n) for the generator value x
RandIndex(x, n) == (x * n) \div RandMod

generateRandomTimestamp(x) == now - timeOffsets[RandIndex(x, Len(timeOffsets)) + 1]

getRandomAction(x) == actions[RandIndex(x, Len(actions)) + 1]

(***************************************************************************)
(* contributor.id.toString() for a non-negative integer id.                *)
(***************************************************************************)
Digits == << "0", "1", "2", "3", "4", "5", "6", "7", "8", "9" >>

RECURSIVE toString(_)
toString(n) ==
  IF n < 10 THEN Digits[n + 1]
  ELSE toString(n \div 10) \o Digits[(n % 10) + 1]

(***************************************************************************)
(* The GitHub API as the component sees it.  A record of a contributors    *)
(* response carries the fields the code reads; login "" stands for a       *)
(* record without a login.                                                 *)
(***************************************************************************)
Raw(login, type, id, avatar, html, n) ==
  [login |-> login, type |-> type, id |-> id, avatar_url |-> avatar,
   html_url |-> html, contributions |-> n]

Arr(body) == [kind |-> "array", body |-> body]

\* sixteen users, more than the component keeps
BigBody ==
  [j \in 1..16 |->
     Raw(<<"u01", "u02", "u03", "u04", "u05", "u06", "u07", "u08", "u09",
           "u10", "u11", "u12", "u13", "u14", "u15", "u16">>[j],
         "User", 200 + j, "av", "hp", 1 + ((j * 7) % 16))]

\* GET /repos/{full_name}/contributors for each repository of the organisation
RepoContributors(name) ==
  CASE name = "r1" ->
         Arr(<< Raw("alice", "User", 101, "a1", "ha", 5),
                Raw("bob", "User", 102, "b1", "hb", 3) >>)
    [] name = "r2" ->
         Arr(<< Raw("bob", "User", 1020, "b2", "hb2", 4),
                Raw("ci-bot", "Bot", 900, "c1", "hc", 9),
                Raw("carol", "User", 103, "k1", "hk", 4) >>)
    [] name = "r3" ->
         Arr(<< Raw("", "User", 104, "x1", "hx", 7),
                Raw("alice", "User", 1010, "a2", "ha2", 2),
                Raw("alice", "Bot", 1011, "a3", "ha3", 6) >>)
    [] name = "r4" -> Arr(<< Raw("dave", "User", 105, "d1", "hd", 4) >>)
    [] name = "bots" -> Arr(<< Raw("ci-bot", "Bot", 900, "c1", "hc", 2) >>)
    [] name = "none" -> Arr(<< >>)
    [] name = "big" -> Arr(BigBody)
    [] name = "gone" -> [kind |-> "notok", body |-> << >>]
    [] name = "odd" -> [kind |-> "nonarray", body |-> << >>]
    [] OTHER -> [kind |-> "exception", body |-> << >>]

\* bodies the organisation's repository listing may have (the names, newest first)
Listings ==
  { << "r1" >>, << "r3" >>, << "gone" >> }

RepoNames == { "r1", "r2", "r3", "r4", "bots", "none", "big", "gone", "odd", "down" }

ListingsRich ==
  { << >> }
  \cup { << a >> : a \in RepoNames }
  \cup { << a, b >> : a \in RepoNames, b \in RepoNames }
  \cup { << "down", "gone", "odd", "none", "bots", "r3", "r2", "r1", "r4" >>,
         << "r1", "r1", "r2", "r3", "r4", "r2", "r1", "down", "big" >>,
         << "big", "r1", "gone", "r2" >>,
         << "none", "none", "bots", "gone", "odd", "down", "none", "bots", "r1" >> }

\* outcomes of GET /orgs/recodehive/repos
ReposResponses(L) ==
  { [kind |-> k, body |-> << >>] : k \in { "exception", "notok", "nonarray" } }
  \cup { Arr(l) : l \in L }

(***************************************************************************)
(* The merge of one contributors response into contributorsMap.  The Map   *)
(* is a sequence of Contributor records in insertion order, which is the   *)
(* order Map.prototype.values() yields.  A merge returns the map and the   *)
(* generator value left for the next draw.                                 *)
(***************************************************************************)
HasLogin(map, login) == \E j \in 1..Len(map) : map[j].login = login

\* a repeated login replaces the count instead of adding to it
mergeContributorOverwrite(map, c, x) ==
  IF c.login # "" /\ c.type = "User"
  THEN IF HasLogin(map, c.login)
       THEN [map |-> [j \in 1..Len(map) |->
                        IF map[j].login = c.login
                        THEN [map[j] EXCEPT !.contributions = c.contributions]
                        ELSE map[j]],
             x |-> x]
       ELSE [map |-> Append(map,
                       [id |-> toString(c.id),
                        login |-> c.login,
                        avatar_url |-> c.avatar_url,
                        contributions |-> c.contributions,
                        html_url |-> c.html_url,
                        lastActivity |-> generateRandomTimestamp(x)]),
             x |-> NextRand(x)]
  ELSE [map |-> map, x |-> x]

\* the body of repoContributors.forEach for one record c
mergeContributor(map, c, x) ==
  IF c.login # "" /\ c.type = "User"
  THEN IF HasLogin(map, c.login)
       THEN [map |-> [j \in 1..Len(map) |->
                        IF map[j].login = c.login
                        THEN [map[j] EXCEPT !.contributions = @ + c.contributions]
                        ELSE map[j]],
             x |-> x]
       ELSE [map |-> Append(map,
                       [id |-> toString(c.id),
                        login |-> c.login,
                        avatar_url |-> c.avatar_url,
                        contributions |-> c.contributions,
                        html_url |-> c.html_url,
                        lastActivity |-> generateRandomTimestamp(x)]),
             x |-> NextRand(x)]
  ELSE [map |-> map, x |-> x]

RECURSIVE forEachContributor(_, _, _)
forEachContributor(map, body, x) ==
  IF body = << >> THEN [map |-> map, x |-> x]
  ELSE LET m == mergeContributor(map, Head(body), x)
       IN forEachContributor(m.map, Tail(body), m.x)

\* what one contributors response does to the map: only an ok array is merged
mergeResponse(map, resp, x) ==
  IF resp.kind = "array" THEN forEachContributor(map, resp.body, x)
  ELSE [map |-> map, x |-> x]

(***************************************************************************)
(* Array.from(contributorsMap.values())                                    *)
(*   .sort((a, b) => b.contributions - a.contributions).slice(0, 15)       *)
(* Array.prototype.sort is stable: equal counts keep their map order.      *)
(***************************************************************************)
RECURSIVE InsertDesc(_, _)
InsertDesc(sorted, e) ==
  IF sorted = << >> THEN << e >>
  ELSE IF Head(sorted).contributions >= e.contributions
       THEN << Head(sorted) >> \o InsertDesc(Tail(sorted), e)
       ELSE << e >> \o sorted

RECURSIVE sortByContributions(_)
sortByContributions(list) ==
  IF list = << >> THEN << >>
  ELSE InsertDesc(sortByContributions(SubSeq(list, 1, Len(list) - 1)),
                  list[Len(list)])

\* sorted, but never cut to the top 15
liveContributorsUncut(map) == sortByContributions(map)

liveContributors(map) ==
  LET sorted == sortByContributions(map)
  IN SubSeq(sorted, 1, Min(TopN, Len(sorted)))

\* the j-th value the generator yields from x (j = 0: x itself)
RECURSIVE RandAt(_, _)
RandAt(x, j) == IF j = 0 THEN x ELSE RandAt(NextRand(x), j - 1)

\* every activity stamped with the time of the fetch
toActivitiesStampedNow(live, x) ==
  [j \in 1..Len(live) |->
     [contributor |-> live[j],
      action |-> getRandomAction(RandAt(x, j - 1)),
      timestamp |-> now]]

\* liveContributors.map(contributor => ({contributor, action, timestamp}))
toActivities(live, x) ==
  [j \in 1..Len(live) |->
     [contributor |-> live[j],
      action |-> getRandomAction(RandAt(x, j - 1)),
      timestamp |-> live[j].lastActivity]]

(***************************************************************************)
(* What the render function returns for the current state.                 *)
(***************************************************************************)
Render ==
  IF loading THEN "loading"
  ELSE IF Len(activities) = 0 THEN "nothing"
  ELSE IF ~isVisible THEN "hidden"
  ELSE IF currentActivityIndex + 1 > Len(activities) THEN "error"
  ELSE "card"

\* activities[currentActivityIndex] is undefined and the card reads its
\* contributor: the render throws and React unmounts the component
Crashed == Render = "error"

(***************************************************************************)
(* A fetchLiveContributors invocation: rc is the retryCount its closure    *)
(* captured, pc the await it is suspended at, repos the listing, i the     *)
(* repository the loop is at, map the contributorsMap; got is the history  *)
(* of the records of the array responses it has merged.                    *)
(***************************************************************************)
\* every listed repository is asked
sampledAll(repos) == repos

\* repos.slice(0, 8)
sampled(repos) == SubSeq(repos, 1, Min(SampledRepos, Len(repos)))

\* the ceiling itself still retries
UnderCeilingInclusive(rc) == rc <= RetryCeiling

\* retryCount < 3
UnderCeiling(rc) == rc < RetryCeiling

NewOp(rc) ==
  [rc |-> rc, pc |-> "repos", repos |-> << >>, i |-> 0, map |-> << >>,
   got |-> << >>]

Remove(seq, k) == SubSeq(seq, 1, k - 1) \o SubSeq(seq, k + 1, Len(seq))

RECURSIVE PendingUpTo(_)
PendingUpTo(a) == IF a = 0 THEN 0 ELSE timers[a] + PendingUpTo(a - 1)

\* the number of retry timeouts that have not fired yet
Pending == PendingUpTo(RetryCeiling)

\* the record of a callback that completed no fetch operation
Ev(name) ==
  [name |-> name, rc |-> 0, repos |-> << >>, asked |-> 0, got |-> << >>,
   map |-> << >>, delay |-> 0]

\* the record of the callback that completed operation op: the retryCount it
\* captured, the repositories it sampled and asked, the records it merged,
\* its final contributorsMap and the delay of the retry it scheduled (0: none)
Completed(name, op, map, got, delay) ==
  [name |-> name, rc |-> op.rc, repos |-> op.repos, asked |-> op.i,
   got |-> got, map |-> map, delay |-> delay]

Init ==
  /\ contributors = << >>
  /\ activities = << >>
  /\ currentActivityIndex = 0
  /\ isVisible = TRUE
  /\ loading = TRUE
  /\ currentTime = MountTime
  /\ retryCount = 0
  /\ ops = << NewOp(0) >>      \* the fetch effect runs on mount
  /\ timers = [a \in 1..RetryCeiling |-> 0]
  /\ now = MountTime
  /\ fails = 0
  /\ event = Ev("mount")

\* a backoff that doubles: 5000, 10000, 20000
retryDelayDoubling(rc) == RetryDelayUnit * 2 ^ rc

\* the delay of the retry setTimeout: 5000 * (retryCount + 1)
retryDelay(rc) == RetryDelayUnit * (rc + 1)

\* a failure that also drops the data shown so far
FetchFailedClearing(k, op, map, got) ==
  /\ UnderCeiling(op.rc) => Pending < MaxTimers
  /\ timers' = IF UnderCeiling(op.rc)
               THEN [timers EXCEPT ![op.rc + 1] = @ + 1]
               ELSE timers
  /\ loading' = FALSE
  /\ ops' = Remove(ops, k)
  /\ fails' = Min(fails + 1, MaxFails)
  /\ event' = Completed("fetchFailed", op, map, got,
                        IF UnderCeiling(op.rc)
                        THEN retryDelay(op.rc) ELSE 0)
  /\ contributors' = << >>
  /\ activities' = << >>
  /\ currentActivityIndex' = 0
  /\ UNCHANGED <<isVisible, currentTime, retryCount, now>>

\* a failure whose finally block does not clear loading
FetchFailedStillLoading(k, op, map, got) ==
  /\ UnderCeiling(op.rc) => Pending < MaxTimers
  /\ timers' = IF UnderCeiling(op.rc)
               THEN [timers EXCEPT ![op.rc + 1] = @ + 1]
               ELSE timers
  /\ ops' = Remove(ops, k)
  /\ fails' = Min(fails + 1, MaxFails)
  /\ event' = Completed("fetchFailed", op, map, got,
                        IF UnderCeiling(op.rc)
                        THEN retryDelay(op.rc) ELSE 0)
  /\ UNCHANGED <<contributors, activities, currentActivityIndex, isVisible,
                 loading, currentTime, retryCount, now>>

(***************************************************************************)
(* The catch and finally blocks: a retry is scheduled while the captured   *)
(* retryCount is under the ceiling, and loading is cleared.                *)
(***************************************************************************)
FetchFailed(k, op, map, got) ==
  /\ UnderCeiling(op.rc) => Pending < MaxTimers
  /\ timers' = IF UnderCeiling(op.rc)
               THEN [timers EXCEPT ![op.rc + 1] = @ + 1]
               ELSE timers
  /\ loading' = FALSE
  /\ ops' = Remove(ops, k)
  /\ fails' = Min(fails + 1, MaxFails)
  /\ event' = Completed("fetchFailed", op, map, got,
                        IF UnderCeiling(op.rc)
                        THEN retryDelay(op.rc) ELSE 0)
  /\ UNCHANGED <<contributors, activities, currentActivityIndex, isVisible,
                 currentTime, retryCount, now>>

(***************************************************************************)
(* The success branch and the finally block.  setRetryCount(0) changes the *)
(* state only when retryCount is not 0 already; when it does, the fetch    *)
(* effect (deps [retryCount]) runs again after the commit and its          *)
(* setLoading(true) follows the finally block's setLoading(false).         *)
(***************************************************************************)
FetchSucceeded(k, op, map, got, live, x) ==
  /\ contributors' = live
  /\ activities' = toActivities(live, x)
  /\ retryCount' = 0
  /\ IF retryCount # 0
     THEN /\ ops' = Append(Remove(ops, k), NewOp(0))
          /\ loading' = TRUE
     ELSE /\ ops' = Remove(ops, k)
          /\ loading' = FALSE
  /\ fails' = 0
  /\ event' = Completed("fetchSucceeded", op, map, got, 0)
  /\ UNCHANGED <<currentActivityIndex, isVisible, currentTime, timers, now>>

\* a fetch that found nobody still counts as a success
SettleUnconditional(k, op, map, got, x) ==
  FetchSucceeded(k, op, map, got, liveContributors(map), x)

\* the code after the loop: sort, slice, and succeed iff anything is left
Settle(k, op, map, got, x) ==
  LET live == liveContributors(map)
  IN IF Len(live) > 0
     THEN FetchSucceeded(k, op, map, got, live, x)
     ELSE FetchFailed(k, op, map, got)

(***************************************************************************)
(* The repository listing arrives (or its request throws).  A listing that *)
(* is not ok or not an array fails the operation; otherwise the loop over  *)
(* repos.slice(0, 8) starts with its first 100ms delay, and with nothing   *)
(* to loop over the same continuation runs the code after the loop.        *)
(***************************************************************************)
ReposResponse(k, resp) ==
  /\ ~Crashed
  /\ ops[k].pc = "repos"
  /\ IF resp.kind # "array"
     THEN FetchFailed(k, ops[k], << >>, << >>)
     ELSE IF sampled(resp.body) = << >>
          THEN Settle(k, [ops[k] EXCEPT !.repos = resp.body], << >>, << >>, 0)
          ELSE /\ ops' = [ops EXCEPT ![k] =
                            [@ EXCEPT !.pc = "delay", !.repos = resp.body, !.i = 1]]
               /\ event' = Ev("reposListed")
               /\ UNCHANGED <<contributors, activities, currentActivityIndex,
                              isVisible, loading, currentTime, retryCount,
                              timers, now, fails>>

\* the 100ms timeout resolves and the contributors request is issued
DelayElapsed(k) ==
  /\ ~Crashed
  /\ ops[k].pc = "delay"
  /\ ops' = [ops EXCEPT ![k].pc = "contributors"]
  /\ event' = Ev("requestIssued")
  /\ UNCHANGED <<contributors, activities, currentActivityIndex, isVisible,
                 loading, currentTime, retryCount, timers, now, fails>>

(***************************************************************************)
(* The contributors response of repository i arrives (or the request       *)
(* throws, which the inner catch swallows).  After the last sampled        *)
(* repository the same continuation runs the code after the loop.  x is    *)
(* the generator's value when the continuation starts.                     *)
(***************************************************************************)
ContributorsResponse(k, x) ==
  /\ ~Crashed
  /\ ops[k].pc = "contributors"
  /\ LET op == ops[k]
         resp == RepoContributors(op.repos[op.i])
         m == mergeResponse(op.map, resp, x)
         got == IF resp.kind = "array" THEN op.got \o resp.body ELSE op.got
     IN IF op.i < Len(sampled(op.repos))
        THEN /\ ops' = [ops EXCEPT ![k] =
                          [@ EXCEPT !.pc = "delay", !.i = op.i + 1,
                                    !.map = m.map, !.got = got]]
             /\ event' = Ev("contributorsMerged")
             /\ UNCHANGED <<contributors, activities, currentActivityIndex,
                            isVisible, loading, currentTime, retryCount,
                            timers, now, fails>>
        ELSE Settle(k, op, m.map, got, m.x)

(***************************************************************************)
(* A retry setTimeout fires: setRetryCount(prev => prev + 1).  The counter *)
(* changes, so the fetch effect runs again with the new value.             *)
(***************************************************************************)
RetryTimerFire(a) ==
  /\ ~Crashed
  /\ timers[a] > 0
  /\ retryCount < MaxRetryCount
  /\ Len(ops) < MaxOps
  /\ timers' = [timers EXCEPT ![a] = @ - 1]
  /\ retryCount' = retryCount + 1
  /\ ops' = Append(ops, NewOp(retryCount + 1))
  /\ loading' = TRUE
  /\ event' = Ev("retryTimer")
  /\ UNCHANGED <<contributors, activities, currentActivityIndex, isVisible,
                 currentTime, now, fails>>

(***************************************************************************)
(* The 5-minute interval fires: setRetryCount(0).  React bails out of a    *)
(* state update that sets the value the state already has, so the fetch    *)
(* effect runs again only when retryCount was not 0.                       *)
(***************************************************************************)
RefreshTick ==
  /\ ~Crashed
  /\ retryCount # 0 => Len(ops) < MaxOps
  /\ retryCount' = 0
  /\ IF retryCount # 0
     THEN /\ ops' = Append(ops, NewOp(0))
          /\ loading' = TRUE
     ELSE UNCHANGED <<ops, loading>>
  /\ fails' = 0
  /\ event' = Ev("refreshTick")
  /\ UNCHANGED <<contributors, activities, currentActivityIndex, isVisible,
                 currentTime, timers, now>>

\* a clock tick that also asks for fresh data
ClockTickRefetching ==
  /\ ~Crashed
  /\ now < MountTime + MaxClockTicks * ClockPeriod
  /\ Len(ops) < MaxOps
  /\ now' = now + ClockPeriod
  /\ currentTime' = now'
  /\ ops' = Append(ops, NewOp(retryCount))
  /\ loading' = TRUE
  /\ event' = Ev("clockTick")
  /\ UNCHANGED <<contributors, activities, currentActivityIndex, isVisible,
                 retryCount, timers, fails>>

\* the 60-second interval fires: setCurrentTime(Date.now())
ClockTick ==
  /\ ~Crashed
  /\ now < MountTime + MaxClockTicks * ClockPeriod
  /\ now' = now + ClockPeriod
  /\ currentTime' = now'
  /\ event' = Ev("clockTick")
  /\ UNCHANGED <<contributors, activities, currentActivityIndex, isVisible,
                 loading, retryCount, ops, timers, fails>>

\* an index that stops at the last activity instead of wrapping
nextIndexClamped(prev, length) == Min(prev + 1, length - 1)

\* prev => (prev + 1) % activities.length
nextIndex(prev, length) == (prev + 1) % length

\* the 4-second interval, which exists only while activities.length > 0
RotationTick ==
  /\ ~Crashed
  /\ Len(activities) # 0
  /\ currentActivityIndex' = nextIndex(currentActivityIndex, Len(activities))
  /\ event' = Ev("rotationTick")
  /\ UNCHANGED <<contributors, activities, isVisible, loading, currentTime,
                 retryCount, ops, timers, now, fails>>

\* the close button, which is on screen only while the card is
Close ==
  /\ Render = "card"
  /\ isVisible' = FALSE
  /\ event' = Ev("close")
  /\ UNCHANGED <<contributors, activities, currentActivityIndex, loading,
                 currentTime, retryCount, ops, timers, now, fails>>

Next ==
  \/ \E k \in 1..Len(ops) : \E resp \in ReposResponses(Listings) : ReposResponse(k, resp)
  \/ \E k \in 1..Len(ops) : DelayElapsed(k)
  \/ \E k \in 1..Len(ops) : \E x \in 0..MaxSeed : ContributorsResponse(k, x)
  \/ \E a \in 1..RetryCeiling : RetryTimerFire(a)
  \/ RefreshTick
  \/ ClockTick
  \/ RotationTick
  \/ Close

Spec == Init /\ [][Next]_vars

(***************************************************************************)
(* The component with no refresh interval firing and nobody touching it,   *)
(* against the richer set of listings.                                     *)
(***************************************************************************)
NextNoRefresh ==
  \/ \E k \in 1..Len(ops) : \E resp \in ReposResponses(ListingsRich) : ReposResponse(k, resp)
  \/ \E k \in 1..Len(ops) : DelayElapsed(k)
  \/ \E k \in 1..Len(ops) : \E x \in 0..MaxSeed : ContributorsResponse(k, x)
  \/ \E a \in 1..RetryCeiling : RetryTimerFire(a)

SpecNoRefresh == Init /\ [][NextNoRefresh]_vars

(***************************************************************************)
(*                              The claims                                 *)
(***************************************************************************)
Done == event.name \in { "fetchSucceeded", "fetchFailed" }

\* C1: whenever the activity card is what the state calls for (loading
\* false, activity list non-empty), the rotation index is within the list:
\* 0 <= currentActivityIndex < activities.length.
C1_IndexInBounds ==
  (~loading /\ Len(activities) > 0)
    => (0 <= currentActivityIndex /\ currentActivityIndex < Len(activities))

\* C2: every firing of the 5-minute refresh timer starts a new fetch
\* operation (one that captured retryCount 0), whatever retryCount was.
C2_RefreshStartsFetch ==
  [][event'.name = "refreshTick"
       => /\ Len(ops') = Len(ops) + 1
          /\ ops'[Len(ops')] = NewOp(0)]_vars

\* C3: once the close control has been invoked (isVisible false) the widget
\* renders nothing: never the loading placeholder, never the card.
C3_DismissedRendersNothing ==
  ~isVisible => Render \in { "nothing", "hidden" }

\* C4: with no refresh tick, a failed fetch schedules a retry exactly while
\* it is among the first three failures of its run of consecutive failures,
\* so a run schedules at most 3 retries; the failure at the ceiling
\* schedules nothing.
C4_AtMostThreeRetries ==
  /\ event.name = "fetchFailed" => (event.delay > 0 <=> fails <= 3)
  /\ event.name = "fetchFailed" => (event.delay > 0 <=> event.rc < 3)
  /\ Pending <= 1

C4_Witness ==
  event.name = "fetchFailed" /\ fails = 4 /\ event.delay = 0 /\ event.rc = 3

\* C5 as stated: after three consecutive failed fetches (no refresh tick)
\* no retry is pending and no fetch operation is in flight.
C5_QuietAfterThreeFailures ==
  fails >= 3 => (Pending = 0 /\ ops = << >>)

\* C5 as amended: after four consecutive failed fetches (the initial fetch
\* and its three retries, no refresh tick) no retry is pending, no fetch
\* operation is in flight and none can start.
C5_QuietAfterFourFailures ==
  fails >= 4 => (Pending = 0 /\ ops = << >> /\ ~ENABLED NextNoRefresh)

C5_Witness ==
  fails = 4 /\ event.name = "fetchFailed" /\ retryCount = 3

\* C6: the activity list has the length of the contributor list, its i-th
\* activity is about the i-th contributor and carries that contributor's
\* lastActivity as its timestamp.
C6_ActivitiesMirrorContributors ==
  /\ Len(activities) = Len(contributors)
  /\ \A j \in 1..Len(activities) :
       /\ activities[j].contributor = contributors[j]
       /\ activities[j].timestamp = contributors[j].lastActivity

C6_Witness ==
  /\ Len(contributors) = 2
  /\ event.name = "fetchFailed"
  /\ activities[2].contributor.login = "bob"

\* C7: a failed fetch operation leaves the contributor list, the activity
\* list, the rotation index and the visible flag as they were, and ends
\* with loading false.
C7_FailureKeepsLastGood ==
  [][event'.name = "fetchFailed"
       => /\ UNCHANGED <<contributors, activities, currentActivityIndex, isVisible>>
          /\ loading' = FALSE]_vars

C7_Witness ==
  /\ event.name = "fetchFailed"
  /\ Len(contributors) > 0
  /\ currentActivityIndex > 0
  /\ ~loading

(***************************************************************************)
(* What the merge of the records got must have produced.                   *)
(***************************************************************************)
IsUser(c) == c.login # "" /\ c.type = "User"

UserLogins(got) == { got[j].login : j \in { n \in 1..Len(got) : IsUser(got[n]) } }

RECURSIVE CountOf(_, _)
CountOf(login, got) ==
  IF got = << >> THEN 0
  ELSE (IF IsUser(Head(got)) /\ Head(got).login = login
        THEN Head(got).contributions ELSE 0) + CountOf(login, Tail(got))

FirstOf(login, got) ==
  got[CHOOSE j \in 1..Len(got) :
        /\ IsUser(got[j]) /\ got[j].login = login
        /\ \A n \in 1..(j - 1) : ~(IsUser(got[n]) /\ got[n].login = login)]

MergedRight(map, got) ==
  /\ \A j \in 1..Len(map) : map[j].login \in UserLogins(got)
  /\ \A login \in UserLogins(got) :
       /\ Cardinality({ j \in 1..Len(map) : map[j].login = login }) = 1
       /\ \A j \in 1..Len(map) :
            map[j].login = login
              => /\ map[j].contributions = CountOf(login, got)
                 /\ map[j].id = toString(FirstOf(login, got).id)
                 /\ map[j].avatar_url = FirstOf(login, got).avatar_url
                 /\ map[j].html_url = FirstOf(login, got).html_url

\* C8: within a fetch operation the merged map holds exactly one entry for
\* every login of a User record received, with the sum of that login's
\* counts and the id, avatar and profile URL of its first record; records
\* without a login or of another type contribute nothing.
C8_MergeSumsPerLogin ==
  /\ \A k \in 1..Len(ops) : MergedRight(ops[k].map, ops[k].got)
  /\ Done => MergedRight(event.map, event.got)

C8_Witness ==
  /\ event.name = "fetchSucceeded"
  /\ \E j \in 1..Len(event.map) :
       /\ event.map[j].login = "bob"
       /\ event.map[j].contributions = 7
       /\ event.map[j].avatar_url = "b2"
  /\ \E j \in 1..Len(event.got) : event.got[j].type = "Bot"
  /\ \E j \in 1..Len(event.got) : event.got[j].login = ""

\* C9: the contributor list is sorted by contribution count, largest first,
\* has at most 15 entries and no login twice, and right after a successful
\* fetch it consists of the merged entries with the 15 highest counts.
C9_SortedTopFifteen ==
  /\ \A j \in 1..(Len(contributors) - 1) :
       contributors[j].contributions >= contributors[j + 1].contributions
  /\ Len(contributors) <= 15
  /\ \A j, n \in 1..Len(contributors) :
       contributors[j].login = contributors[n].login => j = n
  /\ event.name = "fetchSucceeded"
       => /\ Len(contributors) = Min(15, Len(event.map))
          /\ \A j \in 1..Len(contributors) :
               \E n \in 1..Len(event.map) : event.map[n] = contributors[j]
          /\ \A n \in 1..Len(event.map) :
               (\A j \in 1..Len(contributors) : contributors[j] # event.map[n])
                 => \A j \in 1..Len(contributors) :
                      contributors[j].contributions >= event.map[n].contributions

C9_Witness ==
  /\ event.name = "fetchSucceeded"
  /\ Len(event.map) > 15
  /\ Len(contributors) = 15

\* the records of the array responses among the first n repositories of repos
RECURSIVE GatheredFrom(_, _)
GatheredFrom(repos, n) ==
  IF n = 0 THEN << >>
  ELSE GatheredFrom(repos, n - 1)
         \o (IF RepoContributors(repos[n]).kind = "array"
             THEN RepoContributors(repos[n]).body ELSE << >>)

\* C10: a failed contributors request does not abort the operation: an
\* operation that got a listing completes having asked each of the first 8
\* repositories of the listing and merged every array response, and it is
\* a success (contributor and activity lists replaced, retryCount 0) iff at
\* least one User contributor was gathered.
C10_PartialFailureTolerated ==
  /\ \A k \in 1..Len(ops) :
       ops[k].pc # "repos"
         => /\ ops[k].i <= Min(8, Len(ops[k].repos))
            /\ ops[k].got = GatheredFrom(ops[k].repos, ops[k].i - 1)
  /\ Done
       => /\ event.asked = Min(8, Len(event.repos))
          /\ event.got = GatheredFrom(event.repos, event.asked)
          /\ event.name = "fetchSucceeded" <=> UserLogins(event.got) # { }
          /\ event.name = "fetchSucceeded"
               => /\ retryCount = 0
                  /\ Len(contributors) = Min(15, Cardinality(UserLogins(event.got)))
                  /\ \A j \in 1..Len(contributors) :
                       contributors[j].login \in UserLogins(event.got)
                  /\ Len(activities) = Len(contributors)

C10_Witness ==
  /\ event.name = "fetchSucceeded"
  /\ Len(event.repos) > 8
  /\ event.asked = 8
  /\ \E j \in 1..7 : RepoContributors(event.repos[j]).kind = "exception"
  /\ \E j \in 1..7 : RepoContributors(event.repos[j]).kind = "notok"
  /\ \E j \in 1..7 : RepoContributors(event.repos[j]).kind = "nonarray"

\* C11: at any time at most one per-repository contributors request is
\* outstanding, under every interleaving of fetch operations, retry timers
\* and refresh ticks.
C11_OneRequestOutstanding ==
  Cardinality({ k \in 1..Len(ops) : ops[k].pc = "contributors" }) <= 1

(***************************************************************************)
(* formatTimeAgo, and the text of the card's activity-time element.        *)
(***************************************************************************)
\* 'just now' stops one second early
formatTimeAgoEarly(timestamp) ==
  LET diffInSeconds == (currentTime - timestamp) \div 1000
      diffInMinutes == diffInSeconds \div 60
      diffInHours == diffInMinutes \div 60
      diffInDays == diffInHours \div 24
  IN IF diffInSeconds < 60
     THEN IF diffInSeconds < 30 THEN "just now"
          ELSE toString(diffInSeconds) \o " seconds ago"
     ELSE IF diffInMinutes < 60
     THEN IF diffInMinutes = 1 THEN "1 minute ago"
          ELSE toString(diffInMinutes) \o " minutes ago"
     ELSE IF diffInHours < 24
     THEN IF diffInHours = 1 THEN "1 hour ago"
          ELSE toString(diffInHours) \o " hours ago"
     ELSE IF diffInDays = 1 THEN "1 day ago"
          ELSE toString(diffInDays) \o " days ago"

\* Math.floor of a quotient with a positive divisor is \div
formatTimeAgo(timestamp) ==
  LET diffInSeconds == (currentTime - timestamp) \div 1000
      diffInMinutes == diffInSeconds \div 60
      diffInHours == diffInMinutes \div 60
      diffInDays == diffInHours \div 24
  IN IF diffInSeconds < 60
     THEN IF diffInSeconds <= 30 THEN "just now"
          ELSE toString(diffInSeconds) \o " seconds ago"
     ELSE IF diffInMinutes < 60
     THEN IF diffInMinutes = 1 THEN "1 minute ago"
          ELSE toString(diffInMinutes) \o " minutes ago"
     ELSE IF diffInHours < 24
     THEN IF diffInHours = 1 THEN "1 hour ago"
          ELSE toString(diffInHours) \o " hours ago"
     ELSE IF diffInDays = 1 THEN "1 day ago"
          ELSE toString(diffInDays) \o " days ago"

\* the activity-time element of the card
activityTime == formatTimeAgo(activities[currentActivityIndex + 1].timestamp)

(***************************************************************************)
(* The widget showing one activity whose timestamp lies a chosen number of *)
(* milliseconds before (or, negative, after) the displayed current time,   *)
(* with only the clock ticking.  A timestamp is Date.now() at its fetch    *)
(* minus an offset, and currentTime is Date.now() at the last clock tick,  *)
(* so their difference is any integer from about -30000 up.                *)
(***************************************************************************)
SecondsAgo ==
  (-30..62) \cup (88..91) \cup (118..121) \cup (3538..3541) \cup (3598..3661)
    \cup (7138..7141) \cup (7198..7201) \cup (82798..82801) \cup (86338..86401)
    \cup (89998..90001) \cup (172798..172801) \cup (259198..259201)

Millis == { 0, 1, 500, 999 }

InitFormat ==
  \E d \in SecondsAgo : \E ms \in Millis :
    LET c == [id |-> "201", login |-> "u01", avatar_url |-> "av",
              contributions |-> 1, html_url |-> "hp",
              lastActivity |-> MountTime - (1000 * d + ms)]
    IN /\ contributors = << c >>
       /\ activities = << [contributor |-> c, action |-> actions[1],
                           timestamp |-> c.lastActivity] >>
       /\ currentActivityIndex = 0
       /\ isVisible = TRUE
       /\ loading = FALSE
       /\ currentTime = MountTime
       /\ retryCount = 0
       /\ ops = << >>
       /\ timers = [a \in 1..RetryCeiling |-> 0]
       /\ now = MountTime
       /\ fails = 0
       /\ event = Ev("shown")

NextFormat == ClockTick

SpecFormat == InitFormat /\ [][NextFormat]_vars

\* the text the claim gives for a difference of d whole seconds
C12_Text(d) ==
  IF d <= 30 THEN "just now"
  ELSE IF d < 60 THEN toString(d) \o " seconds ago"
  ELSE IF d < 3600
  THEN IF d \div 60 = 1 THEN "1 minute ago"
       ELSE toString(d \div 60) \o " minutes ago"
  ELSE IF d < 86400
  THEN IF d \div 3600 = 1 THEN "1 hour ago"
       ELSE toString(d \div 3600) \o " hours ago"
  ELSE IF d \div 86400 = 1 THEN "1 day ago"
       ELSE toString(d \div 86400) \o " days ago"

C12_Seconds ==
  (currentTime - activities[currentActivityIndex + 1].timestamp) \div 1000

\* C12: with d = floor((currentTime - timestamp) / 1000), the text shown is
\* 'just now' for d <= 30, 'd seconds ago' for 30 < d < 60, minutes
\* floor(d/60) for 60 <= d < 3600, hours floor(d/3600) for 3600 <= d < 86400
\* and days floor(d/86400) otherwise, singular exactly when the count is 1;
\* 29 s, 45 s, 90 s, 7200 s and 90000 s give the texts the claim lists.
C12_FormatTimeAgo ==
  Render = "card" =>
    /\ activityTime = C12_Text(C12_Seconds)
    /\ C12_Seconds = 29 => activityTime = "just now"
    /\ C12_Seconds = 45 => activityTime = "45 seconds ago"
    /\ C12_Seconds = 90 => activityTime = "1 minute ago"
    /\ C12_Seconds = 7200 => activityTime = "2 hours ago"
    /\ C12_Seconds = 90000 => activityTime = "1 day ago"

C12_Witness ==
  /\ event.name = "clockTick"
  /\ C12_Seconds = 7200
  /\ activityTime = "2 hours ago"
  /\ currentTime - activities[currentActivityIndex + 1].timestamp = 7200999

\* C13: whenever a fetch operation is in flight, loading is true and the
\* widget renders the loading placeholder, also when operations overlap.
C13_LoadingWhileInFlight ==
  ops # << >> => (loading /\ Render = "loading")

C15_RotationCycles ==
  /\ [][event'.name = "rotationTick"
          => /\ Len(activities) > 0
             /\ activities' = activities
             /\ currentActivityIndex' =
                  (currentActivityIndex + 1) % Len(activities)]_vars
  /\ [][Len(activities) = 0
          => currentActivityIndex' = currentActivityIndex]_vars
  /\ [](Len(activities) = 0 => ~ENABLED RotationTick)

\* the index has wrapped from the last of two activities to the first
C15_Witness ==
  /\ event.name = "rotationTick"
  /\ Len(activities) = 2
  /\ currentActivityIndex = 0

\* C16: a clock tick changes only the current-time value: contributors,
\* activities, the rotation index, retryCount, loading and isVisible stay
\* as they are and no fetch operation or retry timer is started; a rotation
\* tick changes only the rotation index.
C16_TicksChangeOneValue ==
  /\ [][event'.name = "clockTick"
          => /\ currentTime' # currentTime
             /\ UNCHANGED <<contributors, activities, currentActivityIndex,
                            retryCount, loading, isVisible, ops, timers>>]_vars
  /\ [][event'.name = "rotationTick"
          => UNCHANGED <<contributors, activities, currentTime, retryCount,
                         loading, isVisible, ops, timers>>]_vars

\* the clock has ticked while data is shown and a fetch is in flight
C16_Witness ==
  /\ event.name = "clockTick"
  /\ currentTime = MountTime + ClockPeriod
  /\ Len(activities) > 0
  /\ ops # << >>

\* C17: retryCount is always between 0 and 3 inclusive, under every
\* interleaving of fetch completions, retry timers and refresh ticks.
C17_RetryCountInRange ==
  0 <= retryCount /\ retryCount <= 3

\* C18: a fetch operation that completes successfully does not itself start
\* another fetch operation: its completion leaves one operation fewer in
\* flight, whatever retryCount was.
C18_SuccessStartsNoFetch ==
  [][event'.name = "fetchSucceeded" => Len(ops') = Len(ops) - 1]_vars

\* C19: no event empties the contributor list or the activity list: a list
\* that is non-empty before a step is non-empty after it.
C19_ListsStayNonEmpty ==
  [][/\ Len(activities) > 0 => Len(activities') > 0
     /\ Len(contributors) > 0 => Len(contributors') > 0]_vars

\* the retries of a refetch are exhausted and the earlier data is still shown
C19_Witness ==
  /\ event.name = "fetchFailed"
  /\ event.delay = 0
  /\ event.rc = 3
  /\ Len(activities) = 2
  /\ Len(contributors) = 2

(***************************************************************************)
(* The component when every fetch fails and the refresh interval does not  *)
(* fire: the listing request fails or lists only repositories that yield   *)
(* no user.  A response that is awaited arrives, a 100ms delay elapses and *)
(* a scheduled setTimeout fires: both kinds of step are weakly fair.       *)
(***************************************************************************)
FailingRepoNames == { "bots", "none", "gone", "odd", "down" }

ListingsFailing ==
  { << >> }
  \cup { << a >> : a \in FailingRepoNames }
  \cup { << a, b >> : a \in FailingRepoNames, b \in FailingRepoNames }
  \cup { << "none", "none", "bots", "gone", "odd", "down", "none", "bots",
            "gone" >> }

FetchProgress ==
  \/ \E k \in 1..Len(ops) : \E resp \in ReposResponses(ListingsFailing) : ReposResponse(k, resp)
  \/ \E k \in 1..Len(ops) : DelayElapsed(k)
  \/ \E k \in 1..Len(ops) : \E x \in 0..MaxSeed : ContributorsResponse(k, x)

RetryTimers == \E a \in 1..RetryCeiling : RetryTimerFire(a)

NextAllFail == FetchProgress \/ RetryTimers

SpecAllFail ==
  Init /\ [][NextAllFail]_vars /\ WF_vars(FetchProgress) /\ WF_vars(RetryTimers)

\* no operation in flight, no retry timer pending, loading false
C20_Quiescent == ops = << >> /\ Pending = 0 /\ ~loading

\* C20: when every fetch fails and no refresh tick fires, under fair
\* scheduling of fetch completions and retry timers the component
\* eventually reaches a quiescent state and stays in it.
C20_EventuallyQuiescent == <>[]C20_Quiescent

\* the state the component comes to rest in: the initial fetch and its
\* three retries have failed, the last one after asking eight repositories
C20_Witness ==
  /\ C20_Quiescent
  /\ event.name = "fetchFailed"
  /\ retryCount = 3
  /\ fails = 4
  /\ event.asked = 8
  /\ Len(contributors) = 0

====
